---- MODULE Spec2Model ----
(***************************************************************************)
(* Model of train_utils.py: the argument container MyArgs, the checkpoint  *)
(* listing / loading / saving / rotation functions and load_ckpt.          *)
(*                                                                         *)
(* File names are sequences of one-character strings, so that endswith,    *)
(* startswith, replace, int() and the "{:d}" formatting are computed as    *)
(* Python computes them.  A directory is a function from the universe of   *)
(* file names to the content stored under that name (None: no such file).  *)
(***************************************************************************)
EXTENDS Integers, Sequences, FiniteSets, TLC

VARIABLES
    dir,    \* the checkpoint directory: file name -> Some(content) or None
    ret,    \* the last call: its arguments, locals and outcome
    pc,     \* position of a save_ckpt call that runs line by line
    frame,  \* the locals of that call
    seen,   \* history: the epochs saved so far and the max_to_keep in use
    mark,   \* history: what the running or crashed save_ckpt call left
    argsrc, \* the mapping a MyArgs object is made from
    argobj, \* the MyArgs object, None before it is made
    objs    \* the model, optimizer and scheduler load_ckpt is given

vars == <<dir, ret, pc, frame, seen, mark, argsrc, argobj, objs>>

(* ------------------------------ bounds --------------------------------- *)
\* numbered checkpoints are saved for the epochs 9..MaxEpoch (the range
\* crosses from one to two digits: numeric and lexicographic order differ)
MaxEpoch == 11
\* max_to_keep ranges over 0..MaxKeep
MaxKeep == 3
\* a directory holds at most MaxForeign files that save_ckpt did not write
MaxForeign == 1
\* the mappings given to MyArgs nest to at most MaxDepth
MaxDepth == 1

Epochs == 9..MaxEpoch
Keeps == 0..MaxKeep

(* --------------------------- Python strings ---------------------------- *)
Digits == <<"0", "1", "2", "3", "4", "5", "6", "7", "8", "9">>

DigitVal(c) == (CHOOSE i \in 1..10 : Digits[i] = c) - 1

IsDigit(c) == \E i \in 1..10 : Digits[i] = c

\* str.endswith
endswith(x, s) ==
    /\ Len(x) >= Len(s)
    /\ SubSeq(x, Len(x) - Len(s) + 1, Len(x)) = s

\* str.startswith
startswith(x, s) ==
    /\ Len(x) >= Len(s)
    /\ SubSeq(x, 1, Len(s)) = s

\* str.replace(s, ''): every non-overlapping occurrence of s is removed,
\* scanning from the left
RECURSIVE replace(_, _)
replace(x, s) ==
    IF Len(x) < Len(s) THEN x
    ELSE IF startswith(x, s) THEN replace(SubSeq(x, Len(s) + 1, Len(x)), s)
    ELSE <<Head(x)>> \o replace(Tail(x), s)

\* the body of an integer literal accepted by int(): digits, with single
\* underscores allowed between digits
IsIntBody(b) ==
    /\ Len(b) >= 1
    /\ IsDigit(b[1])
    /\ IsDigit(b[Len(b)])
    /\ \A i \in 1..Len(b) : IsDigit(b[i]) \/ b[i] = "_"
    /\ \A i \in 1..(Len(b) - 1) : ~(b[i] = "_" /\ b[i + 1] = "_")

HasSign(xs) == Len(xs) >= 1 /\ xs[1] \in {"+", "-"}

IntBody(xs) == IF HasSign(xs) THEN Tail(xs) ELSE xs

\* does int(xs) return (TRUE) or raise ValueError (FALSE)
IsInt(xs) == IsIntBody(IntBody(xs))

RECURSIVE DigitsValue(_)
DigitsValue(b) ==
    IF Len(b) = 0 THEN 0
    ELSE IF b[Len(b)] = "_" THEN DigitsValue(SubSeq(b, 1, Len(b) - 1))
    ELSE 10 * DigitsValue(SubSeq(b, 1, Len(b) - 1)) + DigitVal(b[Len(b)])

\* int(xs) for a string that IsInt accepts
int(xs) ==
    IF HasSign(xs) /\ xs[1] = "-" THEN 0 - DigitsValue(IntBody(xs))
    ELSE DigitsValue(IntBody(xs))

\* '{:d}'.format(n), the prefix of a numbered checkpoint
RECURSIVE StrNat(_)
StrNat(n) ==
    IF n < 10 THEN <<Digits[n + 1]>>
    ELSE StrNat(n \div 10) \o <<Digits[(n % 10) + 1]>>

Str(n) == IF n < 0 THEN <<"-">> \o StrNat(0 - n) ELSE StrNat(n)

(* ----------------------------- file names ------------------------------ *)
\* suffix='_checkpoint.pt'
suffix == <<"_", "c", "h", "e", "c", "k", "p", "o", "i", "n", "t", ".", "p", "t">>

best == <<"b", "e", "s", "t">>

BestName == best \o suffix

NumberedName(e) == Str(e) \o suffix

\* names in a checkpoint directory that save_ckpt does not write
Best2Name == best \o <<"2">> \o suffix
BadName == <<"x">> \o suffix
TwiceName == <<"9">> \o suffix \o suffix
LogName == <<"l", "o", "g">>

\* the universe of file names, in one fixed enumeration
NameSeq ==
    [i \in 1..(MaxEpoch - 8) |-> NumberedName(8 + i)]
        \o <<BestName, Best2Name, BadName, TwiceName, LogName>>

Names == {NameSeq[i] : i \in 1..Len(NameSeq)}

ForeignNames == {Best2Name, BadName, TwiceName, LogName}

(* --------------------------- the directory ----------------------------- *)
\* None, and a value that is not None
None == <<>>

Some(v) == <<v>>

\* the record save_ckpt builds (lines 101-108)
ckptdict(epoch, state) ==
    [epoch |-> epoch, best_valid_loss |-> 0, best_valid_epoch |-> epoch,
     model |-> state, optimizer |-> state, scheduler |-> state]

\* content of a file that exists before the first call
OldContent == ckptdict(0, 0)

\* os.path.exists
exists(d, x) == d[x] # None

\* os.listdir returns the entries in arbitrary order; the order is an input
Reverse(s) == [i \in 1..Len(s) |-> s[Len(s) + 1 - i]]

\* both relative orders of every pair of names
ListdirOrders == {NameSeq, Reverse(NameSeq)}

listdir(d, order) == SelectSeq(order, LAMBDA x : exists(d, x))

(* ------------------------ fetch_ckpt_namelist -------------------------- *)
\* line 67
IsCkptName(x) == endswith(x, suffix) /\ ~startswith(x, best)

\* line 68
EpochText(x) == replace(x, suffix)

\* list.sort(key=...) is stable: insertion of each element after the
\* elements whose key is not larger
InsertByEpoch(sorted, p) ==
    LET before == SelectSeq(sorted, LAMBDA q : q[2] <= p[2])
        after == SelectSeq(sorted, LAMBDA q : q[2] > p[2])
    IN  before \o <<p>> \o after

\* characters in ASCII order, for comparing names as Python compares strings
Alphabet ==
    <<"+", "-", ".", "0", "1", "2", "3", "4", "5", "6", "7", "8", "9", "_",
      "b", "c", "e", "g", "h", "i", "k", "l", "n", "o", "p", "s", "t", "x">>

Ord(c) == CHOOSE i \in 1..Len(Alphabet) : Alphabet[i] = c

RECURSIVE StrLess(_, _)
StrLess(a, b) ==
    IF Len(b) = 0 THEN FALSE
    ELSE IF Len(a) = 0 THEN TRUE
    ELSE IF a[1] = b[1] THEN StrLess(Tail(a), Tail(b))
    ELSE Ord(a[1]) < Ord(b[1])

\* ckpts.sort() without the key: the pairs are ordered by file name
RECURSIVE SortByName(_)
SortByName(ps) ==
    IF Len(ps) = 0 THEN <<>>
    ELSE LET rest == SortByName(SubSeq(ps, 1, Len(ps) - 1))
             p == ps[Len(ps)]
         IN  SelectSeq(rest, LAMBDA q : ~StrLess(p[1], q[1])) \o <<p>>
                 \o SelectSeq(rest, LAMBDA q : StrLess(p[1], q[1]))

RECURSIVE SortByEpoch(_)
SortByEpoch(ps) ==
    IF Len(ps) = 0 THEN <<>>
    ELSE InsertByEpoch(SortByEpoch(SubSeq(ps, 1, Len(ps) - 1)), ps[Len(ps)])

\* lines 67-69, the loop body for one entry x: the entry is skipped, or
\* int() raises, or the pair (x, int(xs)) is appended
Entry(x) ==
    IF ~IsCkptName(x) THEN [kind |-> "skip", pair |-> <<x, 0>>]
    ELSE IF ~IsInt(EpochText(x)) THEN [kind |-> "ValueError", pair |-> <<x, 0>>]
    ELSE [kind |-> "append", pair |-> <<x, int(EpochText(x))>>]

\* the loop body over the universe of names, computed once
Entries == [x \in Names |-> Entry(x)]

\* a listing that leaves out the names it cannot read instead of raising
fetch_skipping_unreadable(d, order) ==
    LET cand == SelectSeq(listdir(d, order),
                          LAMBDA x : Entries[x].kind = "append")
    IN  [exc |-> "none",
         value |-> SortByEpoch([i \in 1..Len(cand) |-> Entries[cand[i]].pair])]

\* lines 65-74: the outcome of the call, a raised ValueError or the list
fetch_ckpt_namelist(d, order) ==
    LET entries == listdir(d, order)
        cand == SelectSeq(entries, LAMBDA x : Entries[x].kind # "skip")
    IN  IF \E i \in 1..Len(cand) : Entries[cand[i]].kind = "ValueError"
        THEN [exc |-> "ValueError", value |-> <<>>]
        ELSE [exc |-> "none",
              value |-> SortByEpoch([i \in 1..Len(cand) |->
                                        Entries[cand[i]].pair])]

(* ---------------------------- get_last_ckpt ---------------------------- *)
\* torch.load of a file of the directory
torch_load(d, x) ==
    IF exists(d, x) THEN [exc |-> "none", value |-> d[x]]
    ELSE [exc |-> "FileNotFoundError", value |-> None]

\* ckpts[0] in place of ckpts[-1]
FirstOf(d, ckpts) ==
    IF Len(ckpts) = 0 THEN None ELSE d[ckpts[1][1]]

\* lines 84-87: the newest checkpoint of a listing
LastOf(d, ckpts) ==
    IF Len(ckpts) = 0 THEN None ELSE d[ckpts[Len(ckpts)][1]]

\* lines 88-91
BestOf(d) == IF exists(d, BestName) THEN d[BestName] ELSE None

\* lines 80-94; specify is None or Some(epoch)
get_last_ckpt(d, order, specify) ==
    IF specify # None
    THEN LET l == torch_load(d, Str(specify[1]) \o suffix)
         IN  IF l.exc # "none" THEN [exc |-> l.exc, last |-> None, best |-> None]
             ELSE [exc |-> "none", last |-> l.value, best |-> BestOf(d)]
    ELSE LET l == fetch_ckpt_namelist(d, order)
         IN  IF l.exc # "none" THEN [exc |-> l.exc, last |-> None, best |-> None]
             ELSE [exc |-> "none", last |-> LastOf(d, l.value), best |-> BestOf(d)]

(* ------------------------------ save_ckpt ------------------------------ *)
\* line 109: torch.save(ckptdict, prefix + suffix)
torch_save(d, c, x) == [d EXCEPT ![x] = Some(c)]

\* ckpts[max_to_keep:] in place of ckpts[:len(ckpts) - max_to_keep]
ToDeleteNewest(ckpts, max_to_keep) ==
    IF Len(ckpts) > max_to_keep
    THEN SubSeq(ckpts, max_to_keep + 1, Len(ckpts))
    ELSE <<>>

\* ckpts[:1]: only the oldest file is deleted
ToDeleteOldest(ckpts, max_to_keep) ==
    IF Len(ckpts) > max_to_keep
    THEN SubSeq(ckpts, 1, 1)
    ELSE <<>>

\* ckpts[:len(ckpts) - max_to_keep - 1]: one file too few is deleted
ToDeleteOneLess(ckpts, max_to_keep) ==
    IF Len(ckpts) > max_to_keep
    THEN SubSeq(ckpts, 1, Len(ckpts) - max_to_keep - 1)
    ELSE <<>>

\* lines 112-113: ckpts[:len(ckpts) - max_to_keep] when there are too many
ToDelete(ckpts, max_to_keep) ==
    IF Len(ckpts) > max_to_keep
    THEN SubSeq(ckpts, 1, Len(ckpts) - max_to_keep)
    ELSE <<>>

\* line 115
os_remove(d, x) == [d EXCEPT ![x] = None]

\* lines 113-115: the loop over the files to delete
RECURSIVE RemoveAll(_, _)
RemoveAll(d, dels) ==
    IF Len(dels) = 0 THEN d
    ELSE RemoveAll(os_remove(d, dels[1][1]), Tail(dels))

\* a rotation that removes every file ending in the suffix but the newest
\* max_to_keep of the listing
rotate_all_but_kept(d, ckpts, max_to_keep) ==
    IF Len(ckpts) > max_to_keep
    THEN [x \in Names |->
             IF /\ endswith(x, suffix)
                /\ \A i \in (Len(ckpts) - max_to_keep + 1)..Len(ckpts) :
                       ckpts[i][1] # x
             THEN None ELSE d[x]]
    ELSE d

\* lines 112-115: the rotation
rotate(d, ckpts, max_to_keep) == RemoveAll(d, ToDelete(ckpts, max_to_keep))

\* the prefixes save_ckpt is called with: '{:d}'.format(epoch) or 'best'
Prefixes(epoch) == {Str(epoch), best}

(* ------------------------------- MyArgs -------------------------------- *)
\* Python values: a primitive, a dict, a MyArgs instance (d is its __dict__)
\* and a raised TypeError
Leaf(v) == [t |-> "leaf", v |-> v, d |-> <<>>]

Dict(f) == [t |-> "dict", v |-> 0, d |-> f]

Obj(f) == [t |-> "MyArgs", v |-> 0, d |-> f]

TypeError == [t |-> "TypeError", v |-> 0, d |-> <<>>]

EmptyDict == Dict(<<>>)

\* lines 30-35: MyArgs(**argdict).  The call binds the keyword 'self' to the
\* first parameter of __init__ a second time, which raises TypeError.
RECURSIVE MyArgs_init(_)
MyArgs_init(argdict) ==
    IF "self" \in DOMAIN argdict THEN TypeError
    ELSE LET built == [k \in DOMAIN argdict |->
                          IF argdict[k].t = "dict"
                          THEN MyArgs_init(argdict[k].d)
                          ELSE argdict[k]]
         IN  IF \E k \in DOMAIN built : built[k].t = "TypeError"
             THEN TypeError
             ELSE Obj(built)

\* lines 37-46: o.to_argdict().  The attribute is looked up in the instance
\* __dict__ before the class, so an argument named 'to_argdict' is what gets
\* called, and it is not callable.
RECURSIVE to_argdict(_)
to_argdict(o) ==
    IF "to_argdict" \in DOMAIN o.d THEN TypeError
    ELSE LET out == [k \in DOMAIN o.d |->
                        IF o.d[k].t = "MyArgs"
                        THEN to_argdict(o.d[k])
                        ELSE o.d[k]]
         IN  IF \E k \in DOMAIN out : out[k].t = "TypeError"
             THEN TypeError
             ELSE Dict(out)

\* the mappings handed to MyArgs: string keys, primitive leaves, nested to
\* depth MaxDepth
Keys == {"lr", "self", "to_argdict"}

Leaves == {Leaf(1), Leaf(2)}

FlatMaps == UNION {[S -> Leaves] : S \in SUBSET Keys}

Put(f, k, v) == [x \in DOMAIN f \cup {k} |-> IF x = k THEN v ELSE f[x]]

RECURSIVE Maps(_)
Maps(depth) ==
    IF depth = 0 THEN FlatMaps
    ELSE LET inner == Maps(depth - 1)
         IN  inner \cup {Put(f, k, Dict(g)) :
                            f \in FlatMaps, k \in Keys, g \in inner}

Mappings == {Dict(f) : f \in Maps(MaxDepth)}

(* ------------------------------ load_ckpt ------------------------------ *)
\* a model is a network of some architecture inside `depth` DataParallel
\* wrappers; its state_dict has every key prefixed 'module.' depth times
NoObjs ==
    [model |-> [depth |-> 0, arch |-> 0, state |-> 0],
     optimizer |-> [groups |-> 0, state |-> 0],
     scheduler |-> [state |-> 0]]

\* torch.nn.DataParallel(model)
DataParallel(model) == [model EXCEPT !.depth = @ + 1]

\* the wrapper is returned as it is
no_unwrap(model) == model

\* model.module
module(model) == [model EXCEPT !.depth = @ - 1]

\* Module.load_state_dict: the keys must be those of the module
model_load_state_dict(model, sd) ==
    IF sd.depth = model.depth /\ sd.arch = model.arch
    THEN [exc |-> "none", obj |-> [model EXCEPT !.state = sd.val]]
    ELSE [exc |-> "RuntimeError", obj |-> model]

\* Optimizer.load_state_dict: the parameter groups must match
optimizer_load_state_dict(optimizer, sd) ==
    IF sd.groups = optimizer.groups
    THEN [exc |-> "none", obj |-> [optimizer EXCEPT !.state = sd.val]]
    ELSE [exc |-> "ValueError", obj |-> optimizer]

\* the scheduler's load_state_dict: self.__dict__.update(state_dict)
scheduler_load_state_dict(scheduler, sd) ==
    IF sd.kind = "dict"
    THEN [exc |-> "none", obj |-> [scheduler EXCEPT !.state = sd.val]]
    ELSE [exc |-> "TypeError", obj |-> scheduler]

\* lines 123-128: the outcome for the model: exc, the caller's object `obj`
\* (mutated in place, also through the wrapper) and the rebound local `model`
load_model(model, sd) ==
    LET direct == model_load_state_dict(model, sd)
        wrapped == model_load_state_dict(DataParallel(model), sd)
    IN  IF direct.exc = "none"
        THEN [exc |-> "none", obj |-> direct.obj, model |-> direct.obj]
        ELSE IF wrapped.exc # "none"
        THEN [exc |-> wrapped.exc, obj |-> model, model |-> model]
        ELSE [exc |-> "none",
              obj |-> [model EXCEPT !.state = wrapped.obj.state],
              model |-> module(wrapped.obj)]

\* lines 119-132: exc, the objects after the call and the returned model
load_ckpt(o, ckpt, restore_opt_sche) ==
    LET m == load_model(o.model, ckpt.model)
        opt == optimizer_load_state_dict(o.optimizer, ckpt.optimizer)
        sch == scheduler_load_state_dict(o.scheduler, ckpt.scheduler)
        o1 == [o EXCEPT !.model = m.obj]
        o2 == [o1 EXCEPT !.optimizer = opt.obj]
        o3 == [o2 EXCEPT !.scheduler = sch.obj]
    IN  IF m.exc # "none" THEN [exc |-> m.exc, objs |-> o, value |-> None]
        ELSE IF ~restore_opt_sche
        THEN [exc |-> "none", objs |-> o1, value |-> Some(m.model)]
        ELSE IF opt.exc # "none"
        THEN [exc |-> opt.exc, objs |-> o1, value |-> None]
        ELSE IF sch.exc # "none"
        THEN [exc |-> sch.exc, objs |-> o2, value |-> None]
        ELSE [exc |-> "none", objs |-> o3, value |-> Some(m.model)]

\* the checkpoint records handed to load_ckpt
Ckpts ==
    [epoch : Epochs, best_valid_loss : {0}, best_valid_epoch : {9},
     model : [depth : {0, 1, 2}, arch : {1, 2}, val : {1}],
     optimizer : [groups : {1, 2}, val : {1}],
     scheduler : [kind : {"dict", "other"}, val : {1}]]

(* ------------------------------- actions ------------------------------- *)
NoCall ==
    [op |-> "none", prefix |-> <<>>, max_to_keep |-> 0, specify |-> None,
     exc |-> "none", ckpts |-> <<>>, value |-> None, last |-> None,
     best |-> None, ckpt |-> None, restore_opt_sche |-> FALSE]

NoFrame == [prefix |-> <<>>, max_to_keep |-> 0, ckptdict |-> None, todo |-> <<>>]

NoSeen == [epochs |-> <<>>, max_to_keep |-> 0]

NoMark == [top |-> {}, max_to_keep |-> 0, crashed |-> None, healing |-> FALSE]

fetch_call(order) ==
    LET r == fetch_ckpt_namelist(dir, order)
    IN  /\ ret' = [NoCall EXCEPT !.op = "fetch_ckpt_namelist",
                                 !.exc = r.exc, !.ckpts = r.value]
        /\ UNCHANGED dir

get_last_call(order, specify) ==
    LET r == get_last_ckpt(dir, order, specify)
    IN  /\ ret' = [NoCall EXCEPT !.op = "get_last_ckpt",
                                 !.specify = specify, !.exc = r.exc,
                                 !.last = r.last, !.best = r.best]
        /\ UNCHANGED dir

\* lines 101-116 as one step
save_ckpt(order, epoch, prefix, max_to_keep) ==
    LET c == ckptdict(epoch, 1)
        written == torch_save(dir, c, prefix \o suffix)
        l == fetch_ckpt_namelist(written, order)
        call == [NoCall EXCEPT !.op = "save_ckpt", !.prefix = prefix,
                               !.max_to_keep = max_to_keep]
    IN  IF l.exc # "none"
        THEN /\ dir' = written
             /\ ret' = [call EXCEPT !.exc = l.exc]
        ELSE /\ dir' = rotate(written, l.value, max_to_keep)
             /\ ret' = [call EXCEPT !.ckpts = l.value, !.value = Some(c)]

CallFetch ==
    /\ \E order \in ListdirOrders : fetch_call(order)
    /\ UNCHANGED <<pc, frame, seen, mark, argsrc, argobj, objs>>

CallGetLast ==
    /\ \E order \in ListdirOrders,
          specify \in {None} \cup {Some(e) : e \in Epochs} :
           get_last_call(order, specify)
    /\ UNCHANGED <<pc, frame, seen, mark, argsrc, argobj, objs>>

CallSave ==
    /\ \E order \in ListdirOrders, epoch \in Epochs, max_to_keep \in Keeps :
           \E prefix \in Prefixes(epoch) :
               save_ckpt(order, epoch, prefix, max_to_keep)
    /\ UNCHANGED <<pc, frame, seen, mark, argsrc, argobj, objs>>

\* the directories a run can start from: no checkpoint has been saved yet,
\* files that save_ckpt does not write may be there
StartDirs ==
    {d \in [Names -> {None, Some(OldContent)}] :
        /\ \A x \in Names \ ForeignNames : ~exists(d, x)
        /\ Cardinality({x \in ForeignNames : exists(d, x)}) <= MaxForeign}

Init ==
    /\ dir \in StartDirs
    /\ ret = NoCall
    /\ pc = "idle"
    /\ frame = NoFrame
    /\ seen = NoSeen
    /\ mark = NoMark
    /\ argsrc = EmptyDict
    /\ argobj = None
    /\ objs = NoObjs

Next == CallFetch \/ CallGetLast \/ CallSave

Spec == Init /\ [][Next]_vars

(* ---------- a training run: saves with ascending epochs ---------------- *)
\* the training loop saves '{epoch}' + suffix with a fixed max_to_keep, the
\* epoch growing from call to call, into a directory that held no numbered
\* checkpoint when the run began
SaveEpoch ==
    /\ \E order \in ListdirOrders, epoch \in Epochs :
           /\ \A i \in 1..Len(seen.epochs) : seen.epochs[i] < epoch
           /\ save_ckpt(order, epoch, Str(epoch), seen.max_to_keep)
           /\ seen' = [seen EXCEPT !.epochs = Append(@, epoch)]
    /\ UNCHANGED <<pc, frame, mark, argsrc, argobj, objs>>

\* the caller promotes a checkpoint to best between two numbered saves
SaveBest ==
    /\ \E order \in ListdirOrders, epoch \in Epochs :
           /\ Len(seen.epochs) > 0
           /\ epoch = seen.epochs[Len(seen.epochs)]
           /\ save_ckpt(order, epoch, best, seen.max_to_keep)
    /\ UNCHANGED <<pc, frame, seen, mark, argsrc, argobj, objs>>

InitRun ==
    /\ dir \in {d \in StartDirs : \A x \in Names : exists(d, x) => ~IsCkptName(x)}
    /\ ret = NoCall
    /\ pc = "idle"
    /\ frame = NoFrame
    /\ seen \in {[NoSeen EXCEPT !.max_to_keep = k] : k \in Keeps}
    /\ mark = NoMark
    /\ argsrc = EmptyDict
    /\ argobj = None
    /\ objs = NoObjs

NextRun == SaveEpoch \/ SaveBest \/ CallGetLast

SpecRun == InitRun /\ [][NextRun]_vars

(* --------- save_ckpt line by line, with the process crashing ----------- *)
\* history: the listed files of the highest epoch
Top(d) ==
    LET listed == {x \in Names : exists(d, x) /\ Entries[x].kind = "append"}
    IN  {x \in listed :
            \A y \in listed : Entries[y].pair[2] <= Entries[x].pair[2]}

\* history: did the crashed call leave more than max_to_keep numbered files
LeftExcess(d, f) ==
    /\ f.prefix # best
    /\ \A x \in Names : exists(d, x) => Entries[x].kind # "ValueError"
    /\ Cardinality({x \in Names : exists(d, x) /\ Entries[x].kind = "append"})
           > f.max_to_keep

\* lines 101-109
SaveWrite ==
    /\ pc = "idle"
    /\ \E epoch \in Epochs, max_to_keep \in Keeps :
           \E prefix \in Prefixes(epoch) :
               /\ dir' = torch_save(dir, ckptdict(epoch, 1), prefix \o suffix)
               /\ frame' = [prefix |-> prefix, max_to_keep |-> max_to_keep,
                            ckptdict |-> Some(ckptdict(epoch, 1)),
                            todo |-> <<>>]
               /\ mark' = [top |-> Top(dir'),
                           max_to_keep |-> max_to_keep,
                           crashed |-> mark.crashed,
                           healing |-> /\ mark.crashed # None
                                       /\ prefix # best
                                       /\ max_to_keep = mark.crashed[1].max_to_keep
                                       /\ epoch > mark.crashed[1].epoch]
    /\ ret' = NoCall
    /\ pc' = "line111"
    /\ UNCHANGED <<seen, argsrc, argobj, objs>>

\* lines 111-113: the listing and the slice the loop runs over
SaveList ==
    /\ pc = "line111"
    /\ \E order \in ListdirOrders :
           LET l == fetch_ckpt_namelist(dir, order)
           IN  IF l.exc # "none"
               THEN /\ ret' = [NoCall EXCEPT !.op = "save_ckpt",
                                             !.prefix = frame.prefix,
                                             !.max_to_keep = frame.max_to_keep,
                                             !.exc = l.exc]
                    /\ pc' = "idle"
                    /\ frame' = NoFrame
                    /\ mark' = [mark EXCEPT !.crashed = None, !.healing = FALSE]
               ELSE /\ ret' = [NoCall EXCEPT !.ckpts = l.value]
                    /\ pc' = "line113"
                    /\ frame' = [frame EXCEPT
                                    !.todo = ToDelete(l.value, frame.max_to_keep)]
                    /\ UNCHANGED mark
    /\ UNCHANGED <<dir, seen, argsrc, argobj, objs>>

\* lines 114-115: one iteration of the loop
SaveRemove ==
    /\ pc = "line113"
    /\ frame.todo # <<>>
    /\ dir' = os_remove(dir, frame.todo[1][1])
    /\ frame' = [frame EXCEPT !.todo = Tail(@)]
    /\ UNCHANGED <<ret, pc, seen, mark, argsrc, argobj, objs>>

\* line 116
SaveReturn ==
    /\ pc = "line113"
    /\ frame.todo = <<>>
    /\ ret' = [ret EXCEPT !.op = "save_ckpt", !.prefix = frame.prefix,
                          !.max_to_keep = frame.max_to_keep,
                          !.value = frame.ckptdict]
    /\ pc' = "idle"
    /\ frame' = NoFrame
    /\ mark' = [mark EXCEPT !.crashed = None]
    /\ UNCHANGED <<dir, seen, argsrc, argobj, objs>>

\* the process dies after the write and before the call returns; the
\* directory stays as it is
Crash ==
    /\ pc \in {"line111", "line113"}
    /\ ret' = [NoCall EXCEPT !.op = "save_ckpt", !.prefix = frame.prefix,
                             !.max_to_keep = frame.max_to_keep,
                             !.exc = "crash"]
    /\ pc' = "idle"
    /\ frame' = NoFrame
    /\ mark' = [mark EXCEPT
                   !.healing = FALSE,
                   !.crashed = IF LeftExcess(dir, frame)
                               THEN Some([epoch |-> int(frame.prefix),
                                          max_to_keep |-> frame.max_to_keep])
                               ELSE None]
    /\ UNCHANGED <<dir, seen, argsrc, argobj, objs>>

NextCrash == SaveWrite \/ SaveList \/ SaveRemove \/ SaveReturn \/ Crash

SpecCrash == Init /\ [][NextCrash]_vars

(* ------------------- making and exporting a MyArgs --------------------- *)
CallMyArgs ==
    /\ argobj = None
    /\ LET o == MyArgs_init(argsrc.d)
       IN  /\ argobj' = Some(o)
           /\ ret' = [NoCall EXCEPT
                         !.op = "MyArgs",
                         !.exc = IF o.t = "TypeError" THEN "TypeError" ELSE "none"]
    /\ UNCHANGED <<dir, pc, frame, seen, mark, argsrc, objs>>

CallToArgdict ==
    /\ argobj # None
    /\ argobj[1].t = "MyArgs"
    /\ LET r == to_argdict(argobj[1])
       IN  ret' = [NoCall EXCEPT
                      !.op = "to_argdict",
                      !.exc = IF r.t = "TypeError" THEN "TypeError" ELSE "none",
                      !.value = IF r.t = "TypeError" THEN None ELSE Some(r)]
    /\ UNCHANGED <<dir, pc, frame, seen, mark, argsrc, argobj, objs>>

InitArgs ==
    /\ dir = [x \in Names |-> None]
    /\ ret = NoCall
    /\ pc = "idle"
    /\ frame = NoFrame
    /\ seen = NoSeen
    /\ mark = NoMark
    /\ argsrc \in Mappings
    /\ argobj = None
    /\ objs = NoObjs

NextArgs == CallMyArgs \/ CallToArgdict

SpecArgs == InitArgs /\ [][NextArgs]_vars

(* --------------------------- restoring ---------------------------------- *)
CallLoadCkpt ==
    /\ \E ckpt \in Ckpts, restore_opt_sche \in BOOLEAN :
           LET r == load_ckpt(objs, ckpt, restore_opt_sche)
           IN  /\ objs' = r.objs
               /\ ret' = [NoCall EXCEPT !.op = "load_ckpt", !.exc = r.exc,
                                        !.value = r.value,
                                        !.ckpt = Some(ckpt),
                                        !.restore_opt_sche = restore_opt_sche]
    /\ UNCHANGED <<dir, pc, frame, seen, mark, argsrc, argobj>>

InitRestore ==
    /\ dir = [x \in Names |-> None]
    /\ ret = NoCall
    /\ pc = "idle"
    /\ frame = NoFrame
    /\ seen = NoSeen
    /\ mark = NoMark
    /\ argsrc = EmptyDict
    /\ argobj = None
    /\ objs \in [model : [depth : {0, 1}, arch : {1, 2}, state : {0}],
                 optimizer : [groups : {1, 2}, state : {0}],
                 scheduler : [state : {0}]]

NextRestore == CallLoadCkpt

SpecRestore == InitRestore /\ [][NextRestore]_vars

(* ------------------- vocabulary of the properties --------------------- *)
\* the name with its trailing suffix removed
TrailingPrefix(x) == SubSeq(x, 1, Len(x) - Len(suffix))

\* a numbered checkpoint file as the listing understands it: the name ends
\* in the suffix and does not begin with 'best'
Listable(x) == endswith(x, suffix) /\ SubSeq(x, 1, 4) # <<"b", "e", "s", "t">>

\* the epoch the listing gives such a name: every occurrence of the suffix
\* is removed before the integer is read
ListedEpoch(x) == int(replace(x, suffix))

Numbered(d) == {x \in Names : exists(d, x) /\ Listable(x)}

Unreadable(d) == {x \in Numbered(d) : ~IsInt(replace(x, suffix))}

NamesOf(ckpts) == {ckpts[i][1] : i \in 1..Len(ckpts)}

Ascending(ckpts) ==
    \A i \in 1..Len(ckpts), j \in 1..Len(ckpts) :
        i < j => ckpts[i][2] <= ckpts[j][2]

Min(a, b) == IF a < b THEN a ELSE b

Returned(op) == ret.op = op /\ ret.exc = "none"

(* ------------------------------- C2 ------------------------------------ *)
\* C2 as stated: the listing holds exactly the present names that end in the
\* suffix and differ from 'best' + suffix, each with the integer its prefix
\* denotes, in ascending numeric order.
C2_AsStated ==
    Returned("fetch_ckpt_namelist") =>
        LET want == {x \in Names : exists(dir, x) /\ endswith(x, suffix)
                                     /\ x # BestName}
        IN  /\ NamesOf(ret.ckpts) = want
            /\ Len(ret.ckpts) = Cardinality(want)
            /\ \A i \in 1..Len(ret.ckpts) :
                   /\ IsInt(TrailingPrefix(ret.ckpts[i][1]))
                   /\ ret.ckpts[i][2] = int(TrailingPrefix(ret.ckpts[i][1]))
            /\ Ascending(ret.ckpts)

\* C2 amended: the listing holds exactly the present names that end in the
\* suffix and do not begin with 'best', each once, paired with the integer
\* read from the name with every occurrence of the suffix removed, in
\* ascending numeric order; it is empty when no such name is present.
C2_Listing ==
    Returned("fetch_ckpt_namelist") =>
        /\ NamesOf(ret.ckpts) = Numbered(dir)
        /\ Len(ret.ckpts) = Cardinality(Numbered(dir))
        /\ \A i \in 1..Len(ret.ckpts) :
               ret.ckpts[i][2] = ListedEpoch(ret.ckpts[i][1])
        /\ Ascending(ret.ckpts)

\* a listing of 9, 10 and 11 beside a best file and a name starting with best
C2_Witness ==
    /\ Returned("fetch_ckpt_namelist")
    /\ exists(dir, BestName)
    /\ exists(dir, Best2Name)
    /\ Len(ret.ckpts) >= 3
    /\ ret.ckpts[1][1] = NumberedName(9)
    /\ ret.ckpts[2][1] = NumberedName(10)

(* ------------------------------- C3 ------------------------------------ *)
\* C3: a save_ckpt call never deletes 'best' + suffix, whatever the prefix,
\* and the best file is not among the files counted against max_to_keep.
C3_BestKept ==
    [][ret'.op = "save_ckpt" =>
          /\ (exists(dir, BestName) \/ ret'.prefix = best)
                 => exists(dir', BestName)
          /\ ret'.exc = "none" =>
                 /\ BestName \notin NamesOf(ret'.ckpts)
                 /\ Cardinality(Numbered(dir'))
                        = Min(Len(ret'.ckpts), ret'.max_to_keep)]_vars

\* a numbered save that rotated files out beside an existing best file
C3_Witness ==
    /\ Returned("save_ckpt")
    /\ ret.prefix # best
    /\ Len(ret.ckpts) > ret.max_to_keep
    /\ exists(dir, BestName)

(* ------------------------------- C4 ------------------------------------ *)
\* C4: get_last_ckpt without specify does not fail for want of checkpoints:
\* with no numbered file last is None, otherwise last is the record of a
\* numbered file of the highest epoch; best is the record of the best file
\* if it exists and None otherwise.
C4_LastAndBest ==
    (ret.op = "get_last_ckpt" /\ ret.specify = None) =>
        /\ Unreadable(dir) = {} => ret.exc = "none"
        /\ ret.exc = "none" =>
               /\ Numbered(dir) = {} => ret.last = None
               /\ Numbered(dir) # {} =>
                      \E x \in Numbered(dir) :
                          /\ \A y \in Numbered(dir) :
                                 ListedEpoch(y) <= ListedEpoch(x)
                          /\ ret.last = dir[x]
               /\ exists(dir, BestName) => ret.best = dir[BestName]
               /\ ~exists(dir, BestName) => ret.best = None

\* the newest of several numbered files was loaded, with a best file
C4_Witness ==
    /\ Returned("get_last_ckpt")
    /\ ret.specify = None
    /\ Cardinality(Numbered(dir)) >= 2
    /\ ret.last # None
    /\ ret.last # dir[NumberedName(9)]
    /\ ret.best # None

(* ------------------------------- C7 ------------------------------------ *)
\* C7 as stated: the listing raises exactly when a present name ends in the
\* suffix, differs from 'best' + suffix and has a prefix that is no integer.
C7_AsStated ==
    ret.op = "fetch_ckpt_namelist" =>
        (ret.exc = "ValueError" <=>
            \E x \in Names :
                /\ exists(dir, x)
                /\ endswith(x, suffix)
                /\ x # BestName
                /\ ~IsInt(TrailingPrefix(x)))

\* C7 amended: the listing raises ValueError exactly when a present name ends
\* in the suffix, does not begin with 'best', and is not an integer once
\* every occurrence of the suffix is removed from it; the failing listing
\* leaves the directory unchanged, and save_ckpt and get_last_ckpt (without
\* specify) raise it too, save_ckpt after its file is written and before
\* any deletion.
C7_ParseError ==
    [][/\ ret'.op = "fetch_ckpt_namelist" =>
              /\ ret'.exc = "ValueError" <=> Unreadable(dir) # {}
              /\ ret'.exc \in {"none", "ValueError"}
              /\ dir' = dir
       /\ (ret'.op = "get_last_ckpt" /\ ret'.specify = None) =>
              /\ ret'.exc = "ValueError" <=> Unreadable(dir) # {}
              /\ dir' = dir
       /\ ret'.op = "save_ckpt" =>
              /\ ret'.exc = "ValueError" <=>
                     Unreadable([dir EXCEPT ![ret'.prefix \o suffix] =
                                                Some(OldContent)]) # {}
              /\ ret'.exc = "ValueError" =>
                     \A x \in Names :
                         x # ret'.prefix \o suffix => dir'[x] = dir[x]]_vars

\* a listing that raised on an unreadable name beside a numbered checkpoint
C7_Witness ==
    /\ ret.op = "fetch_ckpt_namelist"
    /\ ret.exc = "ValueError"
    /\ exists(dir, BadName)
    /\ exists(dir, NumberedName(10))

(* ------------------------------- C10 ----------------------------------- *)
SavedName == ret.prefix \o suffix

\* C10 as stated: after a numbered save with max_to_keep >= 1 the file
\* written exists and holds the returned record, whatever the directory held.
C10_AsStated ==
    (Returned("save_ckpt") /\ ret.prefix # best /\ ret.max_to_keep >= 1) =>
        /\ exists(dir, SavedName)
        /\ dir[SavedName] = ret.value

\* C10 amended: after a numbered save with max_to_keep >= 1 the file written
\* exists and holds the returned record, provided fewer than max_to_keep of
\* the other numbered files have an epoch greater than or equal to the
\* saved one.
C10_SavedSurvives ==
    (/\ Returned("save_ckpt") /\ ret.prefix # best /\ ret.max_to_keep >= 1
     /\ Cardinality({i \in 1..Len(ret.ckpts) :
                        /\ ret.ckpts[i][1] # SavedName
                        /\ ret.ckpts[i][2] >= int(ret.prefix)})
            < ret.max_to_keep) =>
        /\ exists(dir, SavedName)
        /\ dir[SavedName] = ret.value

\* a save that overwrote an old file, rotated older files out and kept its own
C10_Witness ==
    /\ Returned("save_ckpt")
    /\ ret.prefix = Str(10)
    /\ ret.max_to_keep = 1
    /\ Len(ret.ckpts) >= 2
    /\ dir[SavedName] = ret.value

(* ------------------------------- C1 ------------------------------------ *)
\* the last n elements of a sequence
LastN(q, n) == {q[i] : i \in (Len(q) - n + 1)..Len(q)}

\* C1: from a directory without numbered checkpoints, after n saves with
\* strictly ascending epochs and a fixed max_to_keep = k >= 1 the numbered
\* files are exactly those of the min(n, k) most recently saved epochs, so
\* there are at most k of them.
C1_Rotation ==
    seen.max_to_keep >= 1 =>
        /\ Numbered(dir) =
               {Str(e) \o suffix :
                   e \in LastN(seen.epochs, Min(Len(seen.epochs), seen.max_to_keep))}
        /\ Cardinality(Numbered(dir)) <= seen.max_to_keep

\* three saves with max_to_keep = 2 beside a best file
C1_Witness ==
    /\ Returned("save_ckpt")
    /\ seen.max_to_keep = 2
    /\ Len(seen.epochs) = 3
    /\ Cardinality(Numbered(dir)) = 2
    /\ exists(dir, BestName)

(* ------------------------------- C5 ------------------------------------ *)
\* C5 as stated: whatever max_to_keep is, during and after a save_ckpt call,
\* crashed or not, a numbered file of the highest epoch present after the
\* write is still present.
C5_AsStated ==
    mark.top # {} => \E x \in mark.top : exists(dir, x)

\* C5 amended: files are deleted only after the write of the call is done,
\* and for max_to_keep >= 1, during and after a save_ckpt call, crashed or
\* not, a numbered file of the highest epoch present after the write is
\* still present.
C5_NewestKept ==
    [][/\ (\E x \in Names : exists(dir, x) /\ ~exists(dir', x)) =>
              /\ pc = "line113"
              /\ frame.ckptdict # None
       /\ (mark'.max_to_keep >= 1 /\ mark'.top # {}) =>
              \E x \in mark'.top : exists(dir', x)]_vars

\* the process crashed in the middle of the deletions of a call with
\* max_to_keep = 1
C5_Witness ==
    /\ ret.op = "save_ckpt"
    /\ ret.exc = "crash"
    /\ mark.max_to_keep = 1
    /\ Cardinality(Numbered(dir)) = 2
    /\ ~exists(dir, NumberedName(9))
    /\ mark.top = {NumberedName(11)}
    /\ ret.prefix = Str(11)

(* ------------------------------- C6 ------------------------------------ *)
\* C6: when a save_ckpt call crashed after its write and left more than
\* max_to_keep numbered files, the next call that returns, made with a
\* higher epoch and the same max_to_keep, leaves exactly max_to_keep
\* numbered files, and every file it deleted is no newer than those it kept.
C6_SelfHealing ==
    (Returned("save_ckpt") /\ mark.healing) =>
        /\ Cardinality(Numbered(dir)) = ret.max_to_keep
        /\ Numbered(dir) \subseteq NamesOf(ret.ckpts)
        /\ \A i \in 1..Len(ret.ckpts) :
               ret.ckpts[i][1] \notin Numbered(dir) =>
                   \A x \in Numbered(dir) : ret.ckpts[i][2] <= ListedEpoch(x)

\* the healing call found two files more than max_to_keep = 1 allows
C6_Witness ==
    /\ Returned("save_ckpt")
    /\ mark.healing
    /\ ret.max_to_keep = 1
    /\ Len(ret.ckpts) >= 3
    /\ Numbered(dir) = {NumberedName(11)}

(* ------------------------------- C8 ------------------------------------ *)
\* the inputs of the last load_ckpt call
DirectFits ==
    /\ ret.ckpt[1].model.depth = objs.model.depth
    /\ ret.ckpt[1].model.arch = objs.model.arch

WrappedFits ==
    /\ ret.ckpt[1].model.depth = objs.model.depth + 1
    /\ ret.ckpt[1].model.arch = objs.model.arch

OptimizerFits == ret.ckpt[1].optimizer.groups = objs.optimizer.groups

SchedulerFits == ret.ckpt[1].scheduler.kind = "dict"

\* C8: when the model state fits only the data-parallel wrapper of the model,
\* load_ckpt (the optimizer and scheduler imports not failing) returns
\* without error the unwrapped model, which carries the imported state; when
\* it fits neither, the error of the second import is raised; a failing
\* optimizer or scheduler import is raised as it is, after the model import.
C8_OneRecovery ==
    ret.op = "load_ckpt" =>
        /\ (/\ ~DirectFits /\ WrappedFits
            /\ ret.restore_opt_sche => (OptimizerFits /\ SchedulerFits)) =>
               /\ ret.exc = "none"
               /\ ret.value = Some(objs.model)
               /\ ret.value[1].depth = objs.model.depth
               /\ objs.model.state = ret.ckpt[1].model.val
        /\ (~DirectFits /\ ~WrappedFits) =>
               /\ ret.exc = "RuntimeError"
               /\ ret.value = None
        /\ ((DirectFits \/ WrappedFits) /\ ret.restore_opt_sche
                /\ ~OptimizerFits) =>
               /\ ret.exc = "ValueError"
               /\ objs.model.state = ret.ckpt[1].model.val
        /\ ((DirectFits \/ WrappedFits) /\ ret.restore_opt_sche
                /\ OptimizerFits /\ ~SchedulerFits) =>
               ret.exc = "TypeError"

\* a record with wrapper-prefixed keys restored into a bare model, optimizer
\* and scheduler included
C8_Witness ==
    /\ Returned("load_ckpt")
    /\ ret.restore_opt_sche
    /\ ret.ckpt[1].model.depth = 1
    /\ objs.model.depth = 0
    /\ ret.value = Some(objs.model)
    /\ objs.model.state = 1
    /\ objs.optimizer.state = 1

(* ------------------------------- C9 ------------------------------------ *)
\* C9: for every nested mapping with string keys and primitive leaves,
\* making a MyArgs from it succeeds and to_argdict returns the mapping.
C9_RoundTrip ==
    /\ argobj # None => argobj[1].t = "MyArgs"
    /\ ret.op = "to_argdict" =>
           /\ ret.exc = "none"
           /\ ret.value = Some(argsrc)

====
